---- MODULE Spec2Model ----
(***************************************************************************)
(* The timespan metric of glean.js (core/metrics/types/timespan.ts):       *)
(* TimespanMetric (validate, payload) and TimespanMetricType (start, stop, *)
(* cancel, testGetValue), together with the dispatcher queue, the clock,   *)
(* the upload-enabled flag and the metrics database they run against.      *)
(***************************************************************************)
EXTENDS Integers, Sequences, FiniteSets, TLC

VARIABLES
    now,            \* the value getMonotonicNow() returns at this moment
    uploadEnabled,  \* Context.uploadEnabled
    disabled,       \* CommonMetricData.disabled of this metric (fixed)
    timeUnit,       \* TimespanMetricType.timeUnit (fixed at construction)
    startTime,      \* TimespanMetricType.startTime (Undefined when absent)
    queue,          \* tasks launched on Context.dispatcher, not yet executed
    store,          \* Context.metricsDatabase: ping -> raw stored value
    reported,       \* console.error message of the task started last ("" if none)
    toggles,        \* history: how often the flag changed (counted in SpecFlagHistory only)
    origin,         \* history: the start() call whose task set startTime
    last,           \* history: the task started last: its operation, whether it
                    \* wrote a record after the clock had moved since its call,
                    \* whether it was a cancel() that found the metric Running
    written,        \* history: the pings that task wrote a fresh record to
    running,        \* the task the dispatcher has started and not finished, and
                    \* the await it is suspended at (NoTask if there is none)
    call,           \* the testGetValue call of the test: its ping, how far it
                    \* has got, the value it has read or returned
    seen,           \* history: ping -> what a testGetValue(ping) task read
                    \* since the database was last written (NotRead if none)
    input,          \* the value handed to validate (pure-function specification)
    output          \* what validate answered for it

vars == << now, uploadEnabled, disabled, timeUnit, startTime, queue, store,
           reported, toggles, origin, last, written, running, call, seen,
           input, output >>

----------------------------------------------------------------------------
(* Bounds of the model. *)

MaxTime == 2
MaxQueue == 2
MaxToggles == 2

----------------------------------------------------------------------------
(* JSON values.  Every value is a record of one shape so that any two     *)
(* values compare: tag, the number n, the string s, the entries e of an   *)
(* object (a set of key/value pairs with distinct keys).                  *)

Prim(tag, n, s) == [tag |-> tag, n |-> n, s |-> s, e |-> {}]

Undef == Prim("undefined", 0, "")

Null == Prim("null", 0, "")

Num(n) == Prim("number", n, "")

Str(s) == Prim("string", 0, s)

Entry(k, v) == [k |-> k, v |-> v]

Obj(entries) == [tag |-> "object", n |-> 0, s |-> "", e |-> entries]

Arr(entries) == [tag |-> "array", n |-> 0, s |-> "", e |-> entries]

\* utils.js: type guards
isUndefined(v) == v.tag = "undefined"

isObject(v) == v.tag = "object"

isString(v) == v.tag = "string"

isNumber(v) == v.tag = "number"

\* Object.keys(v): the own keys of an object or array; a TypeError for
\* undefined and null
ObjectKeys(v) == { x.k : x \in v.e }

ObjectKeysThrows(v) == v.tag \in { "undefined", "null" }

\* "k" in v: a TypeError unless v is an object or an array
HasKey(k, v) == k \in ObjectKeys(v)

InThrows(v) == v.tag \notin { "object", "array" }

\* v.k, for a key v has
Field(v, k) == (CHOOSE x \in v.e : x.k = k).v

\* time_unit.js: the values of the TimeUnit enumeration
TimeUnit == { "nanosecond", "microsecond", "millisecond", "second",
              "minute", "hour", "day" }

----------------------------------------------------------------------------
(* TimespanMetric *)

\* validate without the check of the number of keys
validate_AnyKeyCount(v) ==
    IF ~isObject(v)
    THEN "false"
    ELSE IF InThrows(v)
    THEN "TypeError"
    ELSE LET timeUnitVerification ==
                 /\ HasKey("timeUnit", v)
                 /\ isString(Field(v, "timeUnit"))
                 /\ Field(v, "timeUnit").s \in TimeUnit
             timespanVerification ==
                 /\ HasKey("timespan", v)
                 /\ isNumber(Field(v, "timespan"))
                 /\ Field(v, "timespan").n >= 0
         IN  IF ~timeUnitVerification \/ ~timespanVerification
             THEN "false"
             ELSE "true"

\* validate(v): "true", "false", or "TypeError" when evaluating it throws
\* (Object.keys of undefined/null, `in` applied to a primitive).
validate(v) ==
    IF ~isObject(v)
    THEN "false"
    ELSE IF ObjectKeysThrows(v)
    THEN "TypeError"
    ELSE IF Cardinality(ObjectKeys(v)) # 2
    THEN "false"
    ELSE IF InThrows(v)
    THEN "TypeError"
    ELSE LET timeUnitVerification ==
                 /\ HasKey("timeUnit", v)
                 /\ isString(Field(v, "timeUnit"))
                 /\ Field(v, "timeUnit").s \in TimeUnit
             timespanVerification ==
                 /\ HasKey("timespan", v)
                 /\ isNumber(Field(v, "timespan"))
                 /\ Field(v, "timespan").n >= 0
         IN  IF ~timeUnitVerification \/ ~timespanVerification
             THEN "false"
             ELSE "true"

\* the object { timeUnit: unit, timespan: ms }
Record(unit, ms) == Obj({ Entry("timeUnit", Str(unit)), Entry("timespan", Num(ms)) })

\* new TimespanMetric(v): the Metric constructor throws unless validate(v)
TimespanMetric(v) ==
    IF validate(v) = "true"
    THEN [threw |-> FALSE, inner |-> v]
    ELSE [threw |-> TRUE, inner |-> Undef]

\* A number kept as the exact fraction n / d (d > 0): the divisions of payload
\* are carried out exactly and rounded once, by Math.round.
Exact(n) == [n |-> n, d |-> 1]

\* q / k
Over(q, k) == [n |-> q.n, d |-> q.d * k]

\* Math.round(q): the nearest integer, a tie going up
MathRound(q) == (2 * q.n + q.d) \div (2 * q.d)

\* Math.floor(q)
MathFloor(q) == q.n \div q.d

\* payload rounding down instead of to the nearest integer
payload_RoundsDown(inner) ==
    LET unit == Field(inner, "timeUnit").s
        timespan == Field(inner, "timespan").n
    IN  CASE unit = "nanosecond" -> timespan * 10^6
          [] unit = "microsecond" -> timespan * 10^3
          [] unit = "millisecond" -> timespan
          [] unit = "second" -> MathFloor(Over(Exact(timespan), 1000))
          [] unit = "minute" -> MathFloor(Over(Over(Exact(timespan), 1000), 60))
          [] unit = "hour" ->
                 MathFloor(Over(Over(Over(Exact(timespan), 1000), 60), 60))
          [] unit = "day" ->
                 MathFloor(Over(Over(Over(Over(Exact(timespan), 1000), 60), 60), 24))

\* payload(), of a metric whose _inner is the given valid record
payload(inner) ==
    LET unit == Field(inner, "timeUnit").s
        timespan == Field(inner, "timespan").n
    IN  CASE unit = "nanosecond" -> timespan * 10^6
          [] unit = "microsecond" -> timespan * 10^3
          [] unit = "millisecond" -> timespan
          [] unit = "second" -> MathRound(Over(Exact(timespan), 1000))
          [] unit = "minute" -> MathRound(Over(Over(Exact(timespan), 1000), 60))
          [] unit = "hour" ->
                 MathRound(Over(Over(Over(Exact(timespan), 1000), 60), 60))
          [] unit = "day" ->
                 MathRound(Over(Over(Over(Over(Exact(timespan), 1000), 60), 60), 24))

----------------------------------------------------------------------------
(* TimespanMetricType *)

Undefined == -1

sendInPings == << "aPing", "twoPing" >>

Pings == { sendInPings[i] : i \in 1..Len(sendInPings) }

getMonotonicNow == now

\* MetricType.shouldRecord(uploadEnabled)
shouldRecord(enabled) == enabled /\ ~disabled

\* Context.dispatcher.launch(task)
launch(task) == Append(queue, task)

\* A task closure: the operation, the timestamp it closed over, and (history)
\* how often the collection flag had changed when the call was made.
Task(op, t) == [op |-> op, t |-> t, tg |-> toggles, ping |-> ""]

NoOrigin == [t |-> 0, tg |-> 0]

\* no testGetValue task has read since the database was last written
NotRead == Prim("unread", 0, "")

\* the dispatcher is between two tasks
NoTask == [op |-> "none", at |-> "", elapsed |-> 0, flag |-> FALSE, ping |-> ""]

\* a task suspended at an await: the stop() task at the transform or about to
\* resume after it (flag is reportValueExists), the testGetValue task at
\* getMetric
Awaiting(op, at, elapsed, flag, ping) ==
    [op |-> op, at |-> at, elapsed |-> elapsed, flag |-> flag, ping |-> ping]

\* the test has no testGetValue call under way
NoCall == [ping |-> "", at |-> "none", value |-> Undef]

Executed(task, wrote) ==
    [op |-> task.op,
     late |-> wrote /\ task.t # now,
     ran |-> \/ task.op = "cancel" /\ startTime # Undefined
             \/ task.op = "testGetValue" /\ seen[task.ping] # NotRead]

PureUnchanged == UNCHANGED << input, output >>

\* testGetValue threw instead of returning
Threw == Prim("Error", 0, "")

\* the task in flight and the readback stay as they are
ReadUnchanged == UNCHANGED << running, call, seen >>

\* start() assigning the start timestamp in its synchronous part
start_Synchronous ==
    /\ Len(queue) < MaxQueue
    /\ LET t == getMonotonicNow
       IN  /\ queue' = launch(Task("start", t))
           /\ startTime' = t
    /\ UNCHANGED << now, uploadEnabled, disabled, timeUnit, store,
                    reported, toggles, origin, last, written >>
    /\ PureUnchanged
    /\ ReadUnchanged

\* start(), the synchronous part
start ==
    /\ Len(queue) < MaxQueue
    /\ LET t == getMonotonicNow
       IN  queue' = launch(Task("start", t))
    /\ UNCHANGED << now, uploadEnabled, disabled, timeUnit, startTime, store,
                    reported, toggles, origin, last, written >>
    /\ PureUnchanged
    /\ ReadUnchanged

\* the console.error messages
AlreadyStarted == "Timespan already started."

NotRunning == "Timespan not running."

WasNegative == "Timespan was negative."

AlreadyRecorded == "Timespan value already recorded. New value discarded."

\* start() reading the clock inside the task instead of at the call
startBody_ClockInTask(task) ==
    IF ~shouldRecord(uploadEnabled)
    THEN [startTime |-> startTime, reported |-> ""]
    ELSE IF ~(startTime = Undefined)
    THEN [startTime |-> startTime, reported |-> AlreadyStarted]
    ELSE [startTime |-> getMonotonicNow, reported |-> ""]

\* start() restarting a Running metric from the later timestamp
startBody_Restart(task) ==
    IF ~shouldRecord(uploadEnabled)
    THEN [startTime |-> startTime, reported |-> ""]
    ELSE IF ~(startTime = Undefined)
    THEN [startTime |-> task.t, reported |-> AlreadyStarted]
    ELSE [startTime |-> task.t, reported |-> ""]

\* The effect of the task start() launched on startTime and the console.
startBody(task) ==
    IF ~shouldRecord(uploadEnabled)
    THEN [startTime |-> startTime, reported |-> ""]
    ELSE IF ~(startTime = Undefined)
    THEN [startTime |-> startTime, reported |-> AlreadyStarted]
    ELSE [startTime |-> task.t, reported |-> ""]

\* the dispatcher executes a start() task
startTask ==
    /\ queue # << >>
    /\ Head(queue).op = "start"
    /\ running = NoTask
    /\ LET task == Head(queue)
           r == startBody(task)
       IN  /\ startTime' = r.startTime
           /\ reported' = r.reported
           /\ origin' = IF r.startTime = startTime
                        THEN origin
                        ELSE [t |-> task.t, tg |-> task.tg]
    /\ queue' = Tail(queue)
    /\ last' = Executed(Head(queue), FALSE)
    /\ written' = {}
    /\ UNCHANGED << now, uploadEnabled, disabled, timeUnit, store, toggles >>
    /\ PureUnchanged
    /\ ReadUnchanged

\* stop() passing on the time of the metric's construction, not of the call
stop_StaleClock ==
    /\ Len(queue) < MaxQueue
    /\ LET stopTime == 0
       IN  queue' = launch(Task("stop", stopTime))
    /\ UNCHANGED << now, uploadEnabled, disabled, timeUnit, startTime, store,
                    reported, toggles, origin, last, written >>
    /\ PureUnchanged
    /\ ReadUnchanged

\* stop(), the synchronous part
stop ==
    /\ Len(queue) < MaxQueue
    /\ LET stopTime == getMonotonicNow
       IN  queue' = launch(Task("stop", stopTime))
    /\ UNCHANGED << now, uploadEnabled, disabled, timeUnit, startTime, store,
                    reported, toggles, origin, last, written >>
    /\ PureUnchanged
    /\ ReadUnchanged

\* transformFn replacing a valid record by the new one
transformFn_Overwrite(elapsed, old) ==
    [metric |-> TimespanMetric(Record(timeUnit, elapsed)),
     reportValueExists |-> ~TimespanMetric(old).threw]

\* transformFn never setting reportValueExists
transformFn_NoFlag(elapsed, old) ==
    LET metric == TimespanMetric(old)
    IN  IF ~metric.threw
        THEN [metric |-> metric, reportValueExists |-> FALSE]
        ELSE [metric |-> TimespanMetric(Record(timeUnit, elapsed)),
              reportValueExists |-> FALSE]

\* transformFn converting the elapsed time to the metric's unit before storing
transformFn_StoresConverted(elapsed, old) ==
    LET metric == TimespanMetric(old)
    IN  IF ~metric.threw
        THEN [metric |-> metric, reportValueExists |-> TRUE]
        ELSE [metric |-> TimespanMetric(Record(timeUnit,
                             payload(Record(timeUnit, elapsed)))),
              reportValueExists |-> FALSE]

\* transformFn(elapsed)(old): the metric to store and whether it set
\* reportValueExists
transformFn(elapsed, old) ==
    LET metric == TimespanMetric(old)
    IN  IF ~metric.threw
        THEN [metric |-> metric, reportValueExists |-> TRUE]
        ELSE [metric |-> TimespanMetric(Record(timeUnit, elapsed)),
              reportValueExists |-> FALSE]

\* Context.metricsDatabase.transform(this, transformFn): every ping the metric
\* is sent in gets transformFn(stored value).get()
transform(elapsed) ==
    [ p \in Pings |-> transformFn(elapsed, store[p]).metric.inner ]

\* reportValueExists after transform: some call of transformFn set it
reportValueExists(elapsed) ==
    \E p \in Pings : transformFn(elapsed, store[p]).reportValueExists

\* stop() keeping startTime when the metric should not record
stopBody_NoReset(task) ==
    IF ~shouldRecord(uploadEnabled)
    THEN [startTime |-> startTime, reported |-> "", awaits |-> FALSE,
          elapsed |-> 0]
    ELSE IF startTime = Undefined
    THEN [startTime |-> startTime, reported |-> NotRunning, awaits |-> FALSE,
          elapsed |-> 0]
    ELSE LET elapsed == task.t - startTime
         IN  IF elapsed < 0
             THEN [startTime |-> Undefined, reported |-> WasNegative,
                   awaits |-> FALSE, elapsed |-> 0]
             ELSE [startTime |-> Undefined, reported |-> "", awaits |-> TRUE,
                   elapsed |-> elapsed]

\* stop() without the check for a negative elapsed time
stopBody_NoNegativeCheck(task) ==
    IF ~shouldRecord(uploadEnabled)
    THEN [startTime |-> Undefined, reported |-> "", awaits |-> FALSE,
          elapsed |-> 0]
    ELSE IF startTime = Undefined
    THEN [startTime |-> startTime, reported |-> NotRunning, awaits |-> FALSE,
          elapsed |-> 0]
    ELSE LET elapsed == task.t - startTime
         IN  [startTime |-> Undefined, reported |-> "", awaits |-> TRUE,
              elapsed |-> elapsed]

\* stop() without the check that the metric is Running
stopBody_NoRunningCheck(task) ==
    IF ~shouldRecord(uploadEnabled)
    THEN [startTime |-> Undefined, reported |-> "", awaits |-> FALSE,
          elapsed |-> 0]
    ELSE LET elapsed == task.t - startTime
         IN  IF elapsed < 0
             THEN [startTime |-> Undefined, reported |-> WasNegative,
                   awaits |-> FALSE, elapsed |-> 0]
             ELSE [startTime |-> Undefined, reported |-> "", awaits |-> TRUE,
                   elapsed |-> elapsed]

\* stop() measuring the elapsed time when its task executes
stopBody_ElapsedAtExecution(task) ==
    IF ~shouldRecord(uploadEnabled)
    THEN [startTime |-> Undefined, reported |-> "", awaits |-> FALSE,
          elapsed |-> 0]
    ELSE IF startTime = Undefined
    THEN [startTime |-> startTime, reported |-> NotRunning, awaits |-> FALSE,
          elapsed |-> 0]
    ELSE LET elapsed == getMonotonicNow - startTime
         IN  IF elapsed < 0
             THEN [startTime |-> Undefined, reported |-> WasNegative,
                   awaits |-> FALSE, elapsed |-> 0]
             ELSE [startTime |-> Undefined, reported |-> "", awaits |-> TRUE,
                   elapsed |-> elapsed]

\* stop() leaving the metric Running when it goes on to record
stopBody_StaysRunning(task) ==
    IF ~shouldRecord(uploadEnabled)
    THEN [startTime |-> Undefined, reported |-> "", awaits |-> FALSE,
          elapsed |-> 0]
    ELSE IF startTime = Undefined
    THEN [startTime |-> startTime, reported |-> NotRunning, awaits |-> FALSE,
          elapsed |-> 0]
    ELSE LET elapsed == task.t - startTime
         IN  IF elapsed < 0
             THEN [startTime |-> Undefined, reported |-> WasNegative,
                   awaits |-> FALSE, elapsed |-> 0]
             ELSE [startTime |-> startTime, reported |-> "", awaits |-> TRUE,
                   elapsed |-> elapsed]

\* stop() leaving the metric Running when the elapsed time is negative
stopBody_NegativeStaysRunning(task) ==
    IF ~shouldRecord(uploadEnabled)
    THEN [startTime |-> Undefined, reported |-> "", awaits |-> FALSE,
          elapsed |-> 0]
    ELSE IF startTime = Undefined
    THEN [startTime |-> startTime, reported |-> NotRunning, awaits |-> FALSE,
          elapsed |-> 0]
    ELSE LET elapsed == task.t - startTime
         IN  IF elapsed < 0
             THEN [startTime |-> startTime, reported |-> WasNegative,
                   awaits |-> FALSE, elapsed |-> 0]
             ELSE [startTime |-> Undefined, reported |-> "", awaits |-> TRUE,
                   elapsed |-> elapsed]

\* The task stop() launched, up to its await: startTime after it, what it
\* reports, whether it goes on to the transform and with which elapsed time.
stopBody(task) ==
    IF ~shouldRecord(uploadEnabled)
    THEN [startTime |-> Undefined, reported |-> "", awaits |-> FALSE,
          elapsed |-> 0]
    ELSE IF startTime = Undefined
    THEN [startTime |-> startTime, reported |-> NotRunning, awaits |-> FALSE,
          elapsed |-> 0]
    ELSE LET elapsed == task.t - startTime
         IN  IF elapsed < 0
             THEN [startTime |-> Undefined, reported |-> WasNegative,
                   awaits |-> FALSE, elapsed |-> 0]
             ELSE [startTime |-> Undefined, reported |-> "", awaits |-> TRUE,
                   elapsed |-> elapsed]

\* the dispatcher starts a stop() task, which runs until it returns or awaits
\* the transform
stopTask ==
    /\ queue # << >>
    /\ Head(queue).op = "stop"
    /\ running = NoTask
    /\ LET task == Head(queue)
           r == stopBody(task)
       IN  /\ startTime' = r.startTime
           /\ reported' = r.reported
           /\ origin' = IF r.startTime = Undefined THEN NoOrigin ELSE origin
           /\ running' = IF r.awaits
                         THEN Awaiting("stop", "transform", r.elapsed, FALSE, "")
                         ELSE NoTask
           /\ last' = Executed(task, r.awaits /\ transform(r.elapsed) # store)
    /\ queue' = Tail(queue)
    /\ written' = {}
    /\ UNCHANGED << now, uploadEnabled, disabled, timeUnit, store, toggles,
                    call, seen >>
    /\ PureUnchanged

\* the database applies transformFn while the stop() task awaits it
stopTransform ==
    /\ running.op = "stop"
    /\ running.at = "transform"
    /\ store' = transform(running.elapsed)
    /\ written' = { p \in Pings : transform(running.elapsed)[p] # store[p] }
    /\ running' = Awaiting("stop", "resume", running.elapsed,
                           reportValueExists(running.elapsed), "")
    /\ seen' = [p \in Pings |-> NotRead]
    /\ UNCHANGED << now, uploadEnabled, disabled, timeUnit, startTime, queue,
                    reported, toggles, origin, last, call >>
    /\ PureUnchanged

\* the stop() task resumes after the await and finishes
stopResume ==
    /\ running.op = "stop"
    /\ running.at = "resume"
    /\ reported' = IF running.flag THEN AlreadyRecorded ELSE ""
    /\ running' = NoTask
    /\ UNCHANGED << now, uploadEnabled, disabled, timeUnit, startTime, queue,
                    store, toggles, origin, last, written, call, seen >>
    /\ PureUnchanged

\* cancel(), the synchronous part
cancel ==
    /\ Len(queue) < MaxQueue
    /\ queue' = launch(Task("cancel", 0))
    /\ UNCHANGED << now, uploadEnabled, disabled, timeUnit, startTime, store,
                    reported, toggles, origin, last, written >>
    /\ PureUnchanged
    /\ ReadUnchanged

\* cancel() doing nothing when the metric should not record
cancelBody_OnlyWhenRecording(task) ==
    IF ~shouldRecord(uploadEnabled)
    THEN [startTime |-> startTime, reported |-> ""]
    ELSE [startTime |-> Undefined, reported |-> ""]

\* The effect of the task cancel() launched.
cancelBody(task) == [startTime |-> Undefined, reported |-> ""]

\* the dispatcher executes a cancel() task
cancelTask ==
    /\ queue # << >>
    /\ Head(queue).op = "cancel"
    /\ running = NoTask
    /\ LET task == Head(queue)
           r == cancelBody(task)
       IN  /\ startTime' = r.startTime
           /\ reported' = r.reported
           /\ origin' = IF r.startTime = Undefined THEN NoOrigin ELSE origin
    /\ queue' = Tail(queue)
    /\ last' = Executed(Head(queue), FALSE)
    /\ written' = {}
    /\ UNCHANGED << now, uploadEnabled, disabled, timeUnit, store, toggles >>
    /\ PureUnchanged
    /\ ReadUnchanged

\* testGetValue(ping), up to the await: testLaunch puts the task on the queue.
\* The test makes one call at a time.
testGetValue(ping) ==
    /\ Len(queue) < MaxQueue
    /\ call.at \in { "none", "returned" }
    /\ queue' = launch([op |-> "testGetValue", t |-> 0, tg |-> toggles,
                        ping |-> ping])
    /\ call' = [ping |-> ping, at |-> "called", value |-> Undef]
    /\ UNCHANGED << now, uploadEnabled, disabled, timeUnit, startTime, store,
                    reported, toggles, origin, last, written, running, seen >>
    /\ PureUnchanged

\* Context.metricsDatabase.getMetric(ping, this): the raw value stored
getMetric(ping) == store[ping]

\* if (value): undefined, null, false, 0 and "" are falsy
Truthy(v) ==
    /\ v.tag \notin { "undefined", "null" }
    /\ v.tag = "number" => v.n # 0
    /\ v.tag = "boolean" => v.n # 0
    /\ v.tag = "string" => v.s # ""

\* the task of testGetValue removing the value it has read
testGetValueBody_Consumes(ping) ==
    [value |-> getMetric(ping),
     startTime |-> startTime,
     store |-> [store EXCEPT ![ping] = Undef]]

\* The task of testGetValue: the value it assigns, and the metric after it.
testGetValueBody(ping) ==
    [value |-> getMetric(ping),
     startTime |-> startTime,
     store |-> store]

\* What testGetValue returns for the value its task assigned (Threw when new
\* TimespanMetric(value) throws).
testGetValueReturn(value) ==
    IF Truthy(value)
    THEN IF TimespanMetric(value).threw
         THEN Threw
         ELSE Num(payload(TimespanMetric(value).inner))
    ELSE Undef

\* the dispatcher starts the task of a testGetValue, which awaits getMetric
testGetValueTask ==
    /\ queue # << >>
    /\ Head(queue).op = "testGetValue"
    /\ running = NoTask
    /\ running' = Awaiting("testGetValue", "getMetric", 0, FALSE,
                           Head(queue).ping)
    /\ queue' = Tail(queue)
    /\ reported' = ""
    /\ last' = Executed(Head(queue), FALSE)
    /\ written' = {}
    /\ UNCHANGED << now, uploadEnabled, disabled, timeUnit, startTime, store,
                    toggles, origin, call, seen >>
    /\ PureUnchanged

\* getMetric resolves: the task assigns value and finishes
testGetValueRead ==
    /\ running.op = "testGetValue"
    /\ LET r == testGetValueBody(running.ping)
       IN  /\ call' = [call EXCEPT !.at = "read", !.value = r.value]
           /\ seen' = [seen EXCEPT ![running.ping] = testGetValueReturn(r.value)]
           /\ startTime' = r.startTime
           /\ store' = r.store
           /\ origin' = IF r.startTime = Undefined THEN NoOrigin ELSE origin
    /\ running' = NoTask
    /\ UNCHANGED << now, uploadEnabled, disabled, timeUnit, queue, reported,
                    toggles, last, written >>
    /\ PureUnchanged

\* the await of testLaunch resumes and testGetValue returns
testGetValueReturns ==
    /\ call.at = "read"
    /\ call' = [call EXCEPT !.at = "returned",
                            !.value = testGetValueReturn(call.value)]
    /\ UNCHANGED << now, uploadEnabled, disabled, timeUnit, startTime, queue,
                    store, reported, toggles, origin, last, written, running,
                    seen >>
    /\ PureUnchanged

----------------------------------------------------------------------------
(* The environment: the collection-enabled flag and the clock. *)

\* Context.uploadEnabled = flag
setUploadEnabled(flag) ==
    /\ flag # uploadEnabled
    /\ uploadEnabled' = flag
    /\ UNCHANGED << now, disabled, timeUnit, startTime, queue, store, reported,
                    toggles, origin, last, written >>
    /\ PureUnchanged
    /\ ReadUnchanged

\* the same, with the change counted in the history
setUploadEnabledCounted(flag) ==
    /\ flag # uploadEnabled
    /\ toggles < MaxToggles
    /\ uploadEnabled' = flag
    /\ toggles' = toggles + 1
    /\ UNCHANGED << now, disabled, timeUnit, startTime, queue, store, reported,
                    origin, last, written >>
    /\ PureUnchanged
    /\ ReadUnchanged

\* time passes: the clock reads a later value
ClockAdvance ==
    /\ \E t \in (now + 1)..MaxTime : now' = t
    /\ UNCHANGED << uploadEnabled, disabled, timeUnit, startTime, queue, store,
                    reported, toggles, origin, last, written >>
    /\ PureUnchanged
    /\ ReadUnchanged

\* a clock anomaly (a simulated clock, or a wall clock being set back): the
\* clock reads an earlier value
ClockAnomaly ==
    /\ \E t \in 0..(now - 1) : now' = t
    /\ UNCHANGED << uploadEnabled, disabled, timeUnit, startTime, queue, store,
                    reported, toggles, origin, last, written >>
    /\ PureUnchanged
    /\ ReadUnchanged

----------------------------------------------------------------------------
(* Raw values the database may hold when the metric is constructed. *)

StoredAtInit == { Undef, Record("second", 1), Record("millisecond", -1) }

\* the units the checked metrics are declared with
DeclaredUnits == { "millisecond", "minute" }

Init ==
    /\ now = 0
    /\ uploadEnabled = TRUE
    /\ disabled \in BOOLEAN
    /\ timeUnit \in DeclaredUnits
    /\ startTime = Undefined
    /\ queue = << >>
    /\ store \in [Pings -> StoredAtInit]
    /\ reported = ""
    /\ toggles = 0
    /\ origin = NoOrigin
    /\ last = [op |-> "none", late |-> FALSE, ran |-> FALSE]
    /\ written = {}
    /\ running = NoTask
    /\ call = NoCall
    /\ seen = [p \in Pings |-> NotRead]
    /\ input = Undef
    /\ output = "none"

Next ==
    \/ start
    \/ startTask
    \/ stop
    \/ stopTask
    \/ stopTransform
    \/ stopResume
    \/ cancel
    \/ cancelTask
    \/ \E flag \in BOOLEAN : setUploadEnabled(flag)
    \/ ClockAdvance
    \/ ClockAnomaly

Spec == Init /\ [][Next]_vars

\* The same program with the history of the collection flag kept: every
\* change of the flag is counted, and each call remembers the count.
NextFlagHistory ==
    \/ start
    \/ startTask
    \/ stop
    \/ stopTask
    \/ stopTransform
    \/ stopResume
    \/ cancel
    \/ cancelTask
    \/ \E flag \in BOOLEAN : setUploadEnabledCounted(flag)
    \/ ClockAdvance
    \/ ClockAnomaly

SpecFlagHistory == Init /\ [][NextFlagHistory]_vars

\* The program with a dispatcher that does not leave a queued task waiting
\* for ever and a database that answers: the task at the head of the queue is
\* eventually started, and a task that awaits the database eventually resumes.
SpecFair ==
    /\ Init
    /\ [][Next]_vars
    /\ WF_vars(startTask)
    /\ WF_vars(stopTask)
    /\ WF_vars(stopTransform)
    /\ WF_vars(stopResume)
    /\ WF_vars(cancelTask)

\* The program under a clock that never goes back.
NextMonotonic ==
    \/ start
    \/ startTask
    \/ stop
    \/ stopTask
    \/ stopTransform
    \/ stopResume
    \/ cancel
    \/ cancelTask
    \/ \E flag \in BOOLEAN : setUploadEnabled(flag)
    \/ ClockAdvance

SpecMonotonic == Init /\ [][NextMonotonic]_vars

\* The program with its test-only readback, under that clock.
NextReadback ==
    \/ NextMonotonic
    \/ \E ping \in Pings : testGetValue(ping)
    \/ testGetValueTask
    \/ testGetValueRead
    \/ testGetValueReturns

SpecReadback == Init /\ [][NextReadback]_vars

----------------------------------------------------------------------------
(* validate as a pure function: Init draws a candidate value, the one     *)
(* action applies validate to it.                                         *)

FieldValues ==
    { Str("second"), Str("day"), Str("lightyear"), Num(0), Num(5), Num(-1), Null }

Absent == Prim("absent", 0, "")

\* the object with the given value (or none) under each of the three keys
ObjectOf(u, t, x) ==
    Obj({ Entry("timeUnit", u) : dummy \in IF u = Absent THEN {} ELSE { 1 } }
        \cup { Entry("timespan", t) : dummy \in IF t = Absent THEN {} ELSE { 1 } }
        \cup { Entry("extra", x) : dummy \in IF x = Absent THEN {} ELSE { 1 } })

Candidates ==
    { Undef, Null, Num(0), Num(-1), Str("second"), Prim("boolean", 1, ""),
      Arr({ Entry("0", Str("second")), Entry("1", Num(1)) }) }
    \cup { ObjectOf(u, t, x) : u \in FieldValues \cup { Absent },
                               t \in FieldValues \cup { Absent },
                               x \in FieldValues \cup { Absent } }

InitValidate ==
    /\ input \in Candidates
    /\ output = "none"
    /\ now = 0
    /\ uploadEnabled = TRUE
    /\ disabled = FALSE
    /\ timeUnit = "millisecond"
    /\ startTime = Undefined
    /\ queue = << >>
    /\ store = [p \in Pings |-> Undef]
    /\ reported = ""
    /\ toggles = 0
    /\ origin = NoOrigin
    /\ last = [op |-> "none", late |-> FALSE, ran |-> FALSE]
    /\ written = {}
    /\ running = NoTask
    /\ call = NoCall
    /\ seen = [p \in Pings |-> NotRead]

\* validate(input) is called
Validate ==
    /\ output = "none"
    /\ output' = validate(input)
    /\ UNCHANGED << input, now, uploadEnabled, disabled, timeUnit, startTime,
                    queue, store, reported, toggles, origin, last, written, running,
                    call, seen >>

NextValidate == Validate

SpecValidate == InitValidate /\ [][NextValidate]_vars

----------------------------------------------------------------------------
(* payload as a pure function: Init draws a valid record, the one action  *)
(* applies payload to it.                                                 *)

\* stored millisecond values: small ones, and the halves and wholes of a
\* second, a minute, an hour and a day
Millis ==
    { 0, 1, 499, 500, 501, 1499, 1500, 2000, 29999, 30000, 30001, 61500, 90000,
      1799999, 1800000, 3600000, 5400000, 43199999, 43200000, 86400000,
      129600000 }

\* the largest value whose payload in the unit still is a 32-bit integer
LargestFor(unit) ==
    CASE unit = "nanosecond" -> 2000
      [] unit = "microsecond" -> 2000000
      [] OTHER -> 129600000

InitPayload ==
    /\ \E unit \in TimeUnit :
         \E ms \in { m \in Millis : m <= LargestFor(unit) } :
           input = Record(unit, ms)
    /\ output = Undef
    /\ now = 0
    /\ uploadEnabled = TRUE
    /\ disabled = FALSE
    /\ timeUnit = "millisecond"
    /\ startTime = Undefined
    /\ queue = << >>
    /\ store = [p \in Pings |-> Undef]
    /\ reported = ""
    /\ toggles = 0
    /\ origin = NoOrigin
    /\ last = [op |-> "none", late |-> FALSE, ran |-> FALSE]
    /\ written = {}
    /\ running = NoTask
    /\ call = NoCall
    /\ seen = [p \in Pings |-> NotRead]

\* new TimespanMetric(input).payload() is called
Payload ==
    /\ output = Undef
    /\ ~TimespanMetric(input).threw
    /\ output' = Num(payload(TimespanMetric(input).inner))
    /\ UNCHANGED << input, now, uploadEnabled, disabled, timeUnit, startTime,
                    queue, store, reported, toggles, origin, last, written, running,
                    call, seen >>

NextPayload == Payload

SpecPayload == InitPayload /\ [][NextPayload]_vars

----------------------------------------------------------------------------
(* The claims. *)

\* this step is the dispatcher executing a task of the given operation
ExecStep(op) ==
    /\ queue # << >>
    /\ Head(queue).op = op
    /\ queue' = Tail(queue)

\* the validator accepts the raw value
Valid(v) == validate(v) = "true"

\* this step is the database applying the transform of the stop() task
TransformStep ==
    /\ running.op = "stop"
    /\ running.at = "transform"
    /\ running'.at = "resume"

\* this step is the stop() task resuming after the await and finishing
ResumeStep ==
    /\ running.op = "stop"
    /\ running.at = "resume"
    /\ running' = NoTask

\* this step starts a stop() task that reaches the storage transform: it
\* finds the metric recording and Running, with a non-negative elapsed time
StopTransforms ==
    /\ ExecStep("stop")
    /\ shouldRecord(uploadEnabled)
    /\ startTime # Undefined
    /\ Head(queue).t - startTime >= 0

\* C1: first write wins.  No step changes a valid stored record of any ping;
\* a transform that finds a valid record in a ping leaves it as it is and sets
\* the flag, and the stop() task then reports 'already recorded'.
FirstWriteWins ==
    [][ /\ \A p \in Pings :
              Valid(store[p]) =>
                /\ store'[p] = store[p]
                /\ TransformStep => running'.flag
        /\ ResumeStep /\ running.flag => reported' = AlreadyRecorded ]_vars

\* C1 witness: a stop() was refused by a record an earlier stop() had written
\* (the records present at construction carry another unit).
FirstWriteWinsWitness ==
    /\ last.op = "stop"
    /\ reported = AlreadyRecorded
    /\ written = {}
    /\ running = NoTask
    /\ \A p \in Pings : Valid(store[p]) /\ Field(store[p], "timeUnit").s = timeUnit

\* C2: the record a stop() writes holds the clock reading of the stop() call
\* minus the clock reading of the start() call that set startTime, whatever
\* the clock reads when the tasks execute.
ClockCapturedAtCall ==
    [][ /\ ExecStep("stop") /\ running'.op = "stop" =>
              running'.elapsed = Head(queue).t - origin.t
        /\ TransformStep =>
              \A p \in Pings :
                store'[p] # store[p] =>
                  store'[p] = Record(timeUnit, running.elapsed) ]_vars

\* C2 witness: a stop() wrote a record of 1 ms although the clock had moved on
\* between its call and the execution of its task.
ClockCapturedAtCallWitness ==
    /\ last.op = "stop"
    /\ last.late
    /\ \E p \in written : store[p] = Record(timeUnit, 1)

\* C3: every record a stop() writes measures an interval during which
\* collection was never disabled: collection was enabled when the start() was
\* called (the flag, enabled at first, had changed an even number of times) and
\* the flag did not change between that call and the call of the stop().
NoRecordAcrossDisabledPeriod ==
    [][ StopTransforms /\ (\E p \in Pings : ~Valid(store[p])) =>
          /\ origin.tg % 2 = 0
          /\ Head(queue).tg = origin.tg ]_vars

\* C4: a start() task executed while the metric does not record changes
\* nothing and reports nothing; a stop() task executed then writes no record,
\* reports nothing and leaves the metric Idle; and a start() task executed when
\* the metric records again and is Idle starts from its own timestamp.
DisabledNoOp ==
    [][ /\ ExecStep("start") /\ ~shouldRecord(uploadEnabled) =>
             startTime' = startTime /\ store' = store /\ reported' = ""
        /\ ExecStep("stop") /\ ~shouldRecord(uploadEnabled) =>
             /\ startTime' = Undefined /\ store' = store /\ reported' = ""
             /\ running' = NoTask
        /\ ExecStep("start") /\ shouldRecord(uploadEnabled) /\ startTime = Undefined =>
             startTime' = Head(queue).t ]_vars

\* C4 witness: a stop() task has executed while collection was disabled (it
\* reported nothing and wrote nothing) and collection is still disabled.
DisabledNoOpWitness ==
    /\ last.op = "stop"
    /\ reported = ""
    /\ written = {}
    /\ ~disabled
    /\ ~uploadEnabled
    /\ startTime = Undefined

\* C5: a start() task that finds the metric recording and Running leaves
\* startTime (and the store) unchanged and reports 'already started', so
\* startTime is always the timestamp of the start() that set it.
PreserveFirstStart ==
    [][ /\ ExecStep("start") /\ shouldRecord(uploadEnabled) /\ startTime # Undefined =>
             startTime' = startTime /\ store' = store /\ reported' = AlreadyStarted
        /\ startTime' # Undefined => startTime' = origin'.t ]_vars

\* C5 witness: a start() task has reported 'already started' and the metric
\* is still Running.
PreserveFirstStartWitness ==
    /\ last.op = "start"
    /\ reported = AlreadyStarted
    /\ startTime # Undefined

\* C6: a cancel() task leaves the metric Idle, whatever its state and the
\* collection flag, reports nothing and leaves the store alone; a stop() task
\* executed right after it while the metric records reports 'not running' and
\* writes nothing.
CancelClearsState ==
    [][ /\ ExecStep("cancel") =>
             startTime' = Undefined /\ store' = store /\ reported' = ""
        /\ ExecStep("stop") /\ last.op = "cancel" /\ shouldRecord(uploadEnabled) =>
             reported' = NotRunning /\ store' = store /\ startTime' = Undefined ]_vars

\* C6 witness: a cancel() task found the metric Running while collection was
\* disabled, and the metric is Idle.
CancelClearsStateWitness ==
    /\ last.op = "cancel"
    /\ last.ran
    /\ ~uploadEnabled
    /\ startTime = Undefined
    /\ reported = ""

\* C7: a stop() task that finds the metric recording and Running with a
\* stop timestamp smaller than startTime writes nothing, reports 'negative
\* timespan' and leaves the metric Idle.
NegativeGuard ==
    [][ /\ ExecStep("stop")
        /\ shouldRecord(uploadEnabled)
        /\ startTime # Undefined
        /\ Head(queue).t < startTime
        => /\ store' = store
           /\ running' = NoTask
           /\ reported' = WasNegative
           /\ startTime' = Undefined ]_vars

\* C7 witness: a stop() task has reported a negative timespan.
NegativeGuardWitness ==
    /\ last.op = "stop"
    /\ reported = WasNegative
    /\ startTime = Undefined
    /\ written = {}

\* C8: a stop() task that finds the metric recording and Idle reports 'not
\* running' and changes neither startTime nor the store.
StopWhileIdle ==
    [][ /\ ExecStep("stop")
        /\ shouldRecord(uploadEnabled)
        /\ startTime = Undefined
        => /\ reported' = NotRunning
           /\ running' = NoTask
           /\ startTime' = startTime
           /\ store' = store ]_vars

\* C8 witness: a stop() task has reported 'not running'.
StopWhileIdleWitness ==
    /\ last.op = "stop"
    /\ reported = NotRunning
    /\ startTime = Undefined
    /\ written = {}

\* C9 as stated: the transform of a stop() replaces an invalid or absent value
\* of a ping by the fresh record and keeps a valid one, and the stop() reports
\* 'already recorded' exactly when that ping's value was valid.
InvalidTreatedAsAbsentPerPing ==
    [][ /\ TransformStep =>
              \A p \in Pings :
                /\ ~Valid(store[p]) =>
                     store'[p] = Record(timeUnit, running.elapsed)
                /\ Valid(store[p]) => store'[p] = store[p]
                /\ running'.flag <=> Valid(store[p])
        /\ ResumeStep => (reported' = AlreadyRecorded <=> running.flag) ]_vars

\* C9 amended: the same, with 'already recorded' reported exactly when the
\* value of at least one of the metric's pings was valid.
InvalidTreatedAsAbsent ==
    [][ /\ TransformStep =>
              /\ \A p \in Pings :
                   /\ ~Valid(store[p]) =>
                        store'[p] = Record(timeUnit, running.elapsed)
                   /\ Valid(store[p]) => store'[p] = store[p]
              /\ running'.flag <=> (\E q \in Pings : Valid(store[q]))
        /\ ResumeStep =>
              reported' = IF running.flag THEN AlreadyRecorded ELSE ""
        /\ StopTransforms =>
              running' = Awaiting("stop", "transform",
                                  Head(queue).t - startTime, FALSE, "") ]_vars

\* C9 witness: a stop() replaced an invalid or absent value of one ping by a
\* fresh record and reported 'already recorded' for the valid value of another.
InvalidTreatedAsAbsentWitness ==
    /\ last.op = "stop"
    /\ reported = AlreadyRecorded
    /\ \E p \in written : Valid(store[p]) /\ Field(store[p], "timeUnit").s = timeUnit
    /\ \E q \in Pings \ written : Valid(store[q])

\* the predicate of the specification: an object with exactly two fields, a
\* timeUnit that is one of the seven unit strings and a timespan that is a
\* number >= 0
IsDurationRecord(v) ==
    /\ v.tag = "object"
    /\ Cardinality(v.e) = 2
    /\ \E x \in v.e :
         x.k = "timeUnit" /\ x.v.tag = "string"
         /\ x.v.s \in { "nanosecond", "microsecond", "millisecond", "second",
                        "minute", "hour", "day" }
    /\ \E y \in v.e : y.k = "timespan" /\ y.v.tag = "number" /\ y.v.n >= 0

\* C10: validate answers true exactly for the values the predicate describes
\* and false for every other one; it never throws.
ValidateIsThePredicate ==
    output # "none" =>
        /\ output \in { "true", "false" }
        /\ (output = "true") <=> IsDurationRecord(input)

\* C10 witness: validate has rejected an object whose timeUnit and timespan
\* are fine but which has a third field.
ValidateIsThePredicateWitness ==
    /\ output = "false"
    /\ input = ObjectOf(Str("second"), Num(5), Num(0))

\* the table of the specification: the factor of the units finer than a
\* millisecond, the divisor of the coarser ones
TableFactor(unit) ==
    CASE unit = "nanosecond" -> 1000000
      [] unit = "microsecond" -> 1000
      [] unit = "millisecond" -> 1

TableDivisor(unit) ==
    CASE unit = "second" -> 1000
      [] unit = "minute" -> 60000
      [] unit = "hour" -> 3600000
      [] unit = "day" -> 86400000

\* r is ms / d rounded to the nearest integer (a tie going up)
IsNearest(r, ms, d) == 2 * r * d - d <= 2 * ms /\ 2 * ms < 2 * r * d + d

\* C11: the payload of a record is the value of the table: ms times the
\* factor for nanosecond, microsecond, millisecond; ms divided by the single
\* divisor and rounded to the nearest integer for second, minute, hour, day;
\* 61500 ms in seconds are 62.
PayloadMatchesTable ==
    output # Undef =>
        LET unit == Field(input, "timeUnit").s
            ms == Field(input, "timespan").n
        IN  /\ unit \in { "nanosecond", "microsecond", "millisecond" } =>
                 output = Num(ms * TableFactor(unit))
            /\ unit \in { "second", "minute", "hour", "day" } =>
                 IsNearest(output.n, ms, TableDivisor(unit))
            /\ input = Record("second", 61500) => output = Num(62)

\* C11 witness: the payload of 61500 ms in seconds has been computed as 62.
PayloadMatchesTableWitness ==
    /\ input = Record("second", 61500)
    /\ output = Num(62)

\* this step is getMetric resolving: the task of testGetValue reads and ends
ReadStep == running.op = "testGetValue" /\ running' = NoTask

\* this step is testGetValue returning to the test
ReturnStep == call.at = "read" /\ call'.at = "returned"

\* C12: the readback is read-only and repeatable.  No step of testGetValue
\* (the call, the start of its task, the read, the return) changes the start
\* timestamp or a stored value, and a task that reads a ping another task
\* has read, with no write of the database by a stop() task between them,
\* reads what makes testGetValue return the same.
ReadbackReadOnly ==
    [][ /\ ( \/ call' # call
             \/ ExecStep("testGetValue")
             \/ ReadStep ) =>
              /\ startTime' = startTime
              /\ store' = store
        /\ ReadStep /\ seen[running.ping] # NotRead =>
              /\ testGetValueReturn(call'.value) = seen[running.ping]
              /\ seen' = seen
        /\ ReturnStep => call'.value = testGetValueReturn(call.value) ]_vars

\* C12 witness: a second readback of a ping has returned the 0 minutes of the 2 ms
\* record a stop() wrote, while the metric is Running again and the record is
\* still stored.
ReadbackReadOnlyWitness ==
    /\ last.op = "testGetValue"
    /\ last.ran
    /\ call = [ping |-> "aPing", at |-> "returned", value |-> Num(0)]
    /\ store["aPing"] = Record("minute", 2)
    /\ startTime # Undefined

\* C13: the task of a readback starts when it is at the head of the queue and
\* the dispatcher has finished every task before it, and the readback returns
\* after its task has read; it returns the payload conversion of the value
\* its task found stored for the ping whenever a value is stored, and 'no
\* value' exactly when nothing is stored.
ReadbackReturnsStored ==
    [][ /\ running'.op = "testGetValue" /\ running.op # "testGetValue" =>
              /\ ExecStep("testGetValue")
              /\ running = NoTask
        /\ ReadStep => call'.value = store[running.ping]
        /\ call'.at = "returned" /\ call.at # "returned" => call.at = "read"
        /\ ReturnStep =>
              /\ call.value # Undef => call'.value = Num(payload(call.value))
              /\ call'.value = Undef <=> call.value = Undef ]_vars

\* the task a step has appended to the queue
Submitted == queue'[Len(queue')]

\* the queue changes only by a task joining its tail or leaving its head; a
\* step that appends a task leaves startTime, the stored values and the task
\* in flight alone; a step that changes startTime starts the task at the head
\* of the queue, and a step that changes a stored value belongs to the stop()
\* task the dispatcher is executing; the dispatcher starts a task only when
\* it has finished the one before
EnqueueOnly ==
    /\ queue' # queue =>
          \/ queue # << >> /\ queue' = Tail(queue)
          \/ queue' = Append(queue, Submitted)
    /\ Len(queue') > Len(queue) =>
          /\ queue' = Append(queue, Submitted)
          /\ startTime' = startTime
          /\ store' = store
          /\ running' = running
    /\ startTime' # startTime =>
          /\ queue # << >>
          /\ queue' = Tail(queue)
    /\ store' # store =>
          /\ running.op = "stop"
          /\ queue' = queue
    /\ Len(queue') < Len(queue) => running = NoTask

\* C14 as stated: calls only enqueue, and the synchronous part of start(),
\* of stop() and of cancel() reads the clock, so that the task each of them
\* appends carries the time of the call.
CallsReadClockAndEnqueue ==
    [][ /\ EnqueueOnly
        /\ Len(queue') > Len(queue) => Submitted.t = getMonotonicNow ]_vars

\* C14: calls only enqueue.  The synchronous part of start() and of stop()
\* reads the clock and appends one task carrying that time; the one of
\* cancel() appends one task and reads no clock; none of them changes
\* startTime or a stored value.  Every change of startTime or of a stored
\* value happens in a step that executes the task at the head of the queue,
\* and tasks join the queue at its tail: they take effect in submission order.
CallsOnlyEnqueue ==
    [][ /\ EnqueueOnly
        /\ Len(queue') > Len(queue) =>
              /\ Submitted.op \in { "start", "stop" } =>
                    Submitted.t = getMonotonicNow
              /\ Submitted.op = "cancel" => Submitted.t = 0 ]_vars

\* C14 witness: start() was called at 0 and cancel() at 2; neither task has
\* executed, and the metric is as it was constructed.
CallsOnlyEnqueueWitness ==
    /\ Len(queue) = 2
    /\ queue[1].op = "start" /\ queue[1].t = 0
    /\ queue[2].op = "cancel" /\ queue[2].t = 0
    /\ now = 2
    /\ startTime = Undefined
    /\ last.op = "none"
    /\ \A p \in Pings : store[p] = Undef

\* C15: racing stops, under a clock that never goes back.  A stop() task that
\* finds the metric recording and Running, with no valid record stored, leaves
\* the metric Idle and goes on to the transform with the elapsed time of its
\* own call (the time of that call minus startTime), and that transform
\* writes the record of this elapsed time to every ping; a stop() task started
\* next after another stop() task, whatever else was called meanwhile, ends
\* at once, changes no stored value and reports 'not running' when the metric
\* records.
RacingStops ==
    [][ /\ ( /\ ExecStep("stop")
             /\ shouldRecord(uploadEnabled)
             /\ startTime # Undefined
             /\ \A p \in Pings : ~Valid(store[p]) ) =>
              /\ startTime' = Undefined
              /\ running' = Awaiting("stop", "transform",
                                     Head(queue).t - startTime, FALSE, "")
        /\ TransformStep /\ (\A p \in Pings : ~Valid(store[p])) =>
              /\ \A p \in Pings :
                    store'[p] = Record(timeUnit, running.elapsed)
              /\ written' = Pings
        /\ ExecStep("stop") /\ last.op = "stop" =>
              /\ running = NoTask
              /\ running' = NoTask
              /\ store' = store
              /\ written' = {}
              /\ startTime' = Undefined
              /\ shouldRecord(uploadEnabled) => reported' = NotRunning ]_vars

\* C15 witness: of the stop() calls made at 1 and later on a metric started
\* at 0, the first has written 1 ms, the second has found the metric Idle and
\* has written nothing, and a third is still queued.
RacingStopsWitness ==
    /\ last.op = "stop"
    /\ reported = NotRunning
    /\ written = {}
    /\ \A p \in Pings : store[p] = Record("millisecond", 1)
    /\ queue # << >>
    /\ Head(queue).op = "stop"

\* C16: the shape of a written record.  Whatever a stop() task writes to a
\* ping is the record of the metric's declared unit and of the elapsed
\* milliseconds as they are (the time of the stop() call minus startTime),
\* never converted to the unit, and the validator accepts it, as it accepts
\* the record of the metric's unit and an elapsed time of 0.
WrittenRecordShape ==
    [][ /\ ExecStep("stop") =>
              /\ running'.op = "stop" =>
                    /\ startTime # Undefined
                    /\ running'.elapsed = Head(queue).t - startTime
              /\ Valid(Record(timeUnit, 0))
        /\ TransformStep =>
              \A p \in Pings :
                  store'[p] # store[p] =>
                      /\ store'[p] = Record(timeUnit, running.elapsed)
                      /\ Field(store'[p], "timespan").n >= 0
                      /\ Valid(store'[p]) ]_vars

\* C16 witness: a minute metric started at 2 and stopped at 2 has just
\* written 0 ms, and the ping whose stored value was invalid now holds a
\* valid record.
WrittenRecordShapeWitness ==
    /\ last.op = "stop"
    /\ timeUnit = "minute"
    /\ "aPing" \in written
    /\ store["aPing"] = Record("minute", 0)
    /\ now = 2

\* a stop() task has found the metric recording and Running with an elapsed
\* time of 0 or more, and awaits the transform with no valid record stored
StopFoundRecordable ==
    /\ running.op = "stop"
    /\ running.at = "transform"
    /\ \A p \in Pings : ~Valid(store[p])

\* every ping holds a valid record and the metric is Idle
RecordedAndIdle ==
    /\ startTime = Undefined
    /\ \A p \in Pings : Valid(store[p])

\* this step executes the task at the head of the queue
HeadExecutes == queue # << >> /\ queue' = Tail(queue)

\* C17: eventual recording, under fair execution of the queued tasks.  While
\* tasks are queued, tasks keep being executed (so every submitted task is
\* executed, the queue being first in, first out), and a stop() task that has
\* found the metric recording and Running, with an elapsed time of 0 or more
\* and no valid record stored, leads to the record being stored and the
\* metric being Idle, whatever is called and however the collection flag
\* changes meanwhile.
EventualRecording ==
    /\ StopFoundRecordable ~> RecordedAndIdle
    /\ []<>(queue = << >>) \/ []<><<HeadExecutes>>_vars

\* C17 witness: a stop() called at an earlier time than the one its task
\* executed at has recorded to every ping, and the metric is Idle.
EventualRecordingWitness ==
    /\ last.op = "stop"
    /\ last.late
    /\ written = Pings
    /\ RecordedAndIdle
    /\ queue = << >>

\* C18: under a clock that never goes back and first in, first out execution,
\* no stop() task reaches the 'negative timespan' branch: the start timestamp
\* of a Running metric is the time of a start() call, and every stop() still
\* queued was called at that time or later.
NegativeUnreachable ==
    /\ reported # WasNegative
    /\ startTime # Undefined =>
          /\ startTime \in 0 .. now
          /\ \A i \in DOMAIN queue :
                queue[i].op = "stop" => queue[i].t >= startTime

\* C18 witness: the clock has advanced, a start() called at 1 and a stop()
\* called at 2 have executed, and the stop() has recorded 1 ms without error.
NegativeUnreachableWitness ==
    /\ last.op = "stop"
    /\ ~last.late
    /\ now = 2
    /\ reported = ""
    /\ written = Pings
    /\ \A p \in Pings : store[p] = Record("minute", 1)

\* C19: right after a stop() task or a cancel() task has executed the metric
\* is Idle, whichever branch the stop() took, and a step that makes an Idle
\* metric Running executes a start() task while the metric records.
IdleAfterStopOrCancel ==
    [][ /\ ExecStep("stop") \/ ExecStep("cancel") => startTime' = Undefined
        /\ startTime = Undefined /\ startTime' # Undefined =>
              /\ ExecStep("start")
              /\ shouldRecord(uploadEnabled) ]_vars

\* C19 witness: a stop() task that found a valid record in every ping has
\* reported 'already recorded', has written nothing and has left the metric
\* Idle.
IdleAfterStopOrCancelWitness ==
    /\ last.op = "stop"
    /\ reported = AlreadyRecorded
    /\ written = {}
    /\ startTime = Undefined
    /\ \A p \in Pings : store[p] = Record("second", 1)
    /\ now = 1

====
